---- MODULE Spec2Model ----
(***************************************************************************)
(* Model of src/coverage.py: the template-coverage batch script.           *)
(*                                                                         *)
(* Text is a sequence of one-character strings.  A compiled regular        *)
(* expression is the sequence of its parsed items: a literal character,    *)
(* "\s*" (ws) or ".*?" (any); the anchors ^ and $ are implied by the       *)
(* whole-string match.                                                     *)
(***************************************************************************)
EXTENDS Integers, Sequences, FiniteSets, TLC

VARIABLES
    pc,                 \* position of the script (module-level code)
    source,             \* the message workbook as read_excel would return it
    dir,                \* the template directory: listing and file contents
    messages_df,        \* the DataFrame rows (records keyed by column name)
    templates,          \* bank name -> list of compiled patterns
    fileIdx,            \* number of directory entries already processed
    futures,            \* per submitted unit: state, raised, value
    results,            \* the index-addressed result list
    order,              \* indices in the order as_completed yielded them
    coverage_summary,   \* sender key -> [total, covered, coverage_pct]
    uncovered_messages, \* the exported rows
    written,            \* output files produced so far
    t_in, m_in, m_out   \* one template, one message, and the match verdict

vars == <<pc, source, dir, messages_df, templates, fileIdx, futures, results,
          order, coverage_summary, uncovered_messages, written,
          t_in, m_in, m_out>>

pipeVars == <<pc, source, dir, messages_df, templates, fileIdx, futures,
              results, order, coverage_summary, uncovered_messages, written>>

matchVars == <<t_in, m_in, m_out>>

(***************************************************************************)
(* Bounds of the model.                                                    *)
(***************************************************************************)
MaxRows == 2        \* records in the message batch
MaxTemplates == 3   \* cells in one template sheet
MaxTmplLen == 3     \* characters of a template text (match specification)
MaxMsgLen == 3      \* characters of a message text (match specification)

max_workers == 8

(***************************************************************************)
(* Text helpers: str.lower, str.upper, str.strip, str.replace, endswith.   *)
(***************************************************************************)
NaN == <<"NaN">>    \* an empty spreadsheet cell (never a text: not a character)

IsSpace(c) == c \in {" ", "\t"}

LowerChar(c) ==
    CASE c = "A" -> "a" [] c = "B" -> "b" [] c = "C" -> "c" [] c = "K" -> "k"
      [] c = "X" -> "x" [] c = "L" -> "l" [] c = "S" -> "s" [] OTHER -> c

UpperChar(c) ==
    CASE c = "a" -> "A" [] c = "b" -> "B" [] c = "c" -> "C" [] c = "k" -> "K"
      [] c = "x" -> "X" [] c = "l" -> "L" [] c = "s" -> "S" [] OTHER -> c

lower(s) == [i \in 1..Len(s) |-> LowerChar(s[i])]

upper(s) == [i \in 1..Len(s) |-> UpperChar(s[i])]

RECURSIVE lstrip(_)
lstrip(s) ==
    IF s # <<>> /\ IsSpace(Head(s)) THEN lstrip(Tail(s)) ELSE s

RECURSIVE rstrip(_)
rstrip(s) ==
    IF s # <<>> /\ IsSpace(s[Len(s)]) THEN rstrip(SubSeq(s, 1, Len(s) - 1)) ELSE s

strip(s) == rstrip(lstrip(s))

StartsWith(s, p) == Len(s) >= Len(p) /\ SubSeq(s, 1, Len(p)) = p

endswith(s, p) ==
    Len(s) >= Len(p) /\ SubSeq(s, Len(s) - Len(p) + 1, Len(s)) = p

\* str.replace(old, new): every non-overlapping occurrence, left to right
RECURSIVE replace(_, _, _)
replace(s, old, new) ==
    IF s = <<>> THEN <<>>
    ELSE IF StartsWith(s, old)
         THEN new \o replace(SubSeq(s, Len(old) + 1, Len(s)), old, new)
         ELSE <<Head(s)>> \o replace(Tail(s), old, new)

\* re.sub(r'\s+', ' ', text)
RECURSIVE collapse_ws(_)
collapse_ws(s) ==
    IF s = <<>> THEN <<>>
    ELSE IF IsSpace(Head(s))
         THEN <<" ">> \o collapse_ws(lstrip(s))
         ELSE <<Head(s)>> \o collapse_ws(Tail(s))

(***************************************************************************)
(* normalize(text, is_template)                                            *)
(***************************************************************************)
\* lines 18-20: lower, strip, whitespace runs to one space
clean_text(text) == collapse_ws(strip(lower(text)))

Lit(c) == [t |-> "lit", c |-> c]
Ws == [t |-> "ws", c |-> ""]
Wild == [t |-> "any", c |-> ""]

\* position of the first ">" of s at or after i, 0 when there is none
RECURSIVE FindClose(_, _)
FindClose(s, i) ==
    IF i > Len(s) THEN 0 ELSE IF s[i] = ">" THEN i ELSE FindClose(s, i + 1)

\* the pattern with a space of the template kept as a literal space
RECURSIVE template_pattern_literal_space(_)
template_pattern_literal_space(s) ==
    IF s = <<>> THEN <<>>
    ELSE IF Head(s) = "<" /\ FindClose(s, 2) # 0
         THEN <<Wild>> \o template_pattern_literal_space(
                              SubSeq(s, FindClose(s, 2) + 1, Len(s)))
         ELSE <<Lit(Head(s))>> \o template_pattern_literal_space(Tail(s))

\* lines 25-39: split on <.*?>, a placeholder becomes .*?, a literal part is
\* escaped and each of its spaces becomes \s*
RECURSIVE template_pattern(_)
template_pattern(s) ==
    IF s = <<>> THEN <<>>
    ELSE IF Head(s) = "<" /\ FindClose(s, 2) # 0
         THEN <<Wild>> \o template_pattern(SubSeq(s, FindClose(s, 2) + 1, Len(s)))
         ELSE <<IF Head(s) = " " THEN Ws ELSE Lit(Head(s))>>
              \o template_pattern(Tail(s))

normalize(text, is_template) ==
    IF is_template THEN template_pattern(clean_text(text)) ELSE clean_text(text)

(***************************************************************************)
(* Pattern.fullmatch                                                       *)
(***************************************************************************)
RECURSIVE MatchFrom(_, _, _, _)
MatchFrom(p, i, s, j) ==
    IF i > Len(p) THEN j > Len(s)
    ELSE CASE p[i].t = "lit" ->
                 j <= Len(s) /\ s[j] = p[i].c /\ MatchFrom(p, i + 1, s, j + 1)
           [] p[i].t = "ws" ->
                 \/ MatchFrom(p, i + 1, s, j)
                 \/ j <= Len(s) /\ IsSpace(s[j]) /\ MatchFrom(p, i, s, j + 1)
           [] OTHER ->
                 \/ MatchFrom(p, i + 1, s, j)
                 \/ j <= Len(s) /\ s[j] # "\n" /\ MatchFrom(p, i, s, j + 1)

fullmatch(p, s) == MatchFrom(p, 1, s, 1)

\* is_covered with the first template skipped
is_covered_skip_first(message, templates_list) ==
    \E k \in 2..Len(templates_list) :
        fullmatch(templates_list[k], normalize(message, FALSE))

\* lines 81-87: first template that matches the normalized message
RECURSIVE is_covered(_, _)
is_covered(message, templates_list) ==
    IF templates_list = <<>> THEN FALSE
    ELSE IF fullmatch(Head(templates_list), normalize(message, FALSE)) THEN TRUE
         ELSE is_covered(message, Tail(templates_list))

(***************************************************************************)
(* Template loading, lines 50-79                                           *)
(***************************************************************************)
Ext == <<".", "x", "l", "s", "x">>
TemplateCol == <<"t", "e", "m", "p", "l", "a", "t", "e">>

\* a spreadsheet cell: empty (nan), or a text; re_error says that re.compile
\* raises re.error for the pattern built from it
Cell(text) == [nan |-> FALSE, text |-> text, re_error |-> FALSE]
BadCell(text) == [nan |-> FALSE, text |-> text, re_error |-> TRUE]
NanCell == [nan |-> TRUE, text |-> <<>>, re_error |-> FALSE]

dict_set(d, k, v) == [x \in DOMAIN d \cup {k} |-> IF x = k THEN v ELSE d[x]]

\* line 54
bank_name(file) == strip(replace(upper(replace(file, Ext, <<>>)), <<"_">>, <<" ">>))

\* line 57 and lines 59-64
stripped_columns(f) == [i \in 1..Len(f.columns) |-> strip(f.columns[i].text)]

raw_templates(f) ==
    IF \E i \in 1..Len(f.columns) : stripped_columns(f)[i] = TemplateCol
    THEN f.cells
    ELSE [i \in 1..Len(f.columns) |->
              [f.columns[i] EXCEPT !.text = stripped_columns(f)[i]]]

\* the compile loop giving up at the first re.error
RECURSIVE compile_until_error(_)
compile_until_error(raw) ==
    IF raw = <<>> THEN <<>>
    ELSE IF Head(raw).nan THEN compile_until_error(Tail(raw))
    ELSE IF Head(raw).re_error THEN <<>>
    ELSE <<normalize(Head(raw).text, TRUE)>> \o compile_until_error(Tail(raw))

\* lines 67-74: empty cells are skipped, a pattern re.compile rejects is
\* reported and skipped, every other one is appended
RECURSIVE compile_templates(_)
compile_templates(raw) ==
    IF raw = <<>> THEN <<>>
    ELSE IF Head(raw).nan THEN compile_templates(Tail(raw))
    ELSE IF Head(raw).re_error THEN compile_templates(Tail(raw))
    ELSE <<normalize(Head(raw).text, TRUE)>> \o compile_templates(Tail(raw))

\* the handler of line 78 registering an empty list for the unreadable file
load_file_registering_failure(tm, f) ==
    IF ~endswith(f.name, Ext) THEN tm
    ELSE IF ~f.readable THEN dict_set(tm, bank_name(f.name), <<>>)
    ELSE dict_set(tm, bank_name(f.name), compile_templates(raw_templates(f)))

\* one iteration of the loop of line 52: a name not ending in .xlsx is passed
\* over; a read_excel failure is caught by the handler of line 78
load_file(tm, f) ==
    IF ~endswith(f.name, Ext) THEN tm
    ELSE IF ~f.readable THEN tm
    ELSE dict_set(tm, bank_name(f.name), compile_templates(raw_templates(f)))

(***************************************************************************)
(* Message loading, lines 46-48 and 95-98                                  *)
(***************************************************************************)
HasField(row, k) == k \in DOMAIN row

\* Series.str.upper().str.strip(): an empty cell stays empty
canonical_sender(v) == IF v = NaN THEN NaN ELSE strip(upper(v))

canonicalize_row(row) ==
    IF HasField(row, "casa_sender_name")
    THEN [row EXCEPT !.casa_sender_name = canonical_sender(@)]
    ELSE row

\* a sender column holding only empty cells is read as a float column, and
\* the .str accessor of line 48 raises on it
str_accessor_raises(recs) ==
    /\ recs # <<>>
    /\ \A i \in 1..Len(recs) :
           HasField(recs[i], "casa_sender_name") /\ recs[i].casa_sender_name = NaN

\* line 96
rename_row(row) ==
    IF HasField(row, "Message")
    THEN [k \in (DOMAIN row \ {"Message"}) \cup {"message"} |->
              IF k = "message" THEN row.Message ELSE row[k]]
    ELSE row

(***************************************************************************)
(* One unit of work, lines 89-93                                           *)
(***************************************************************************)
Returned(b) == [raised |-> FALSE, val |-> b]
Raised == [raised |-> TRUE, val |-> FALSE]

\* row.get gives None for a missing sender; row['message'] raises KeyError
check_row(row, tm) ==
    IF HasField(row, "casa_sender_name") /\ row.casa_sender_name \in DOMAIN tm
    THEN IF HasField(row, "message")
         THEN Returned(is_covered(row.message, tm[row.casa_sender_name]))
         ELSE Raised
    ELSE Returned(FALSE)

(***************************************************************************)
(* Aggregation, lines 112-124                                              *)
(***************************************************************************)
\* line 112
with_covered(df, res) ==
    [i \in 1..Len(df) |->
        [k \in DOMAIN df[i] \cup {"covered"} |->
            IF k = "covered" THEN res[i][1] ELSE df[i][k]]]

\* groupby drops the rows whose key is an empty cell (dropna defaults to True)
group_keys(df) == {df[i].casa_sender_name : i \in 1..Len(df)} \ {NaN}

group_rows(df, g) == {i \in 1..Len(df) : df[i].casa_sender_name = g}

\* the aggregation with covered='count' in place of covered='sum'
summary_count_all(df) ==
    [g \in group_keys(df) |->
        [total |-> Cardinality(group_rows(df, g)),
         covered |-> Cardinality(group_rows(df, g)),
         coverage_pct |-> [num |-> 100 * Cardinality(group_rows(df, g)),
                           den |-> Cardinality(group_rows(df, g))]]]

\* lines 114-118; coverage_pct is the quotient num / den
summary(df) ==
    [g \in group_keys(df) |->
        LET total == Cardinality(group_rows(df, g))
            covered == Cardinality({i \in group_rows(df, g) : df[i].covered})
        IN  [total |-> total, covered |-> covered,
             coverage_pct |-> [num |-> 100 * covered, den |-> total]]]

IsUncovered(row) == ~row.covered

IsCoveredRow(row) == row.covered

\* the filter of line 124 without its negation
uncovered_keeping_covered(df) == SelectSeq(df, IsCoveredRow)

\* line 124
uncovered(df) == SelectSeq(df, IsUncovered)

(***************************************************************************)
(* The script, one action per step                                         *)
(***************************************************************************)
N == Len(messages_df)

Running == {i \in 1..Len(futures) : futures[i].st = "running"}

\* lines 46-48: read the workbook, canonicalize the sender column in place
ReadMessages ==
    /\ pc = "start"
    /\ IF ~source.readable \/ str_accessor_raises(source.recs)
       THEN /\ pc' = "aborted"
            /\ UNCHANGED messages_df
       ELSE /\ pc' = "list"
            /\ messages_df' =
                   [i \in 1..Len(source.recs) |-> canonicalize_row(source.recs[i])]
    /\ UNCHANGED <<source, dir, templates, fileIdx, futures, results, order,
                   coverage_summary, uncovered_messages, written, matchVars>>

\* line 52: os.listdir
ListDir ==
    /\ pc = "list"
    /\ pc' = IF dir.listable THEN "load" ELSE "aborted"
    /\ UNCHANGED <<source, dir, messages_df, templates, fileIdx, futures, results,
                   order, coverage_summary, uncovered_messages, written, matchVars>>

\* lines 52-79: one directory entry
LoadFile ==
    /\ pc = "load"
    /\ fileIdx < Len(dir.files)
    /\ templates' = load_file(templates, dir.files[fileIdx + 1])
    /\ fileIdx' = fileIdx + 1
    /\ UNCHANGED <<pc, source, dir, messages_df, futures, results, order,
                   coverage_summary, uncovered_messages, written, matchVars>>

\* lines 95-103: rename the column, take the rows, allocate the result list,
\* submit one unit per row
Submit ==
    /\ pc = "load"
    /\ fileIdx = Len(dir.files)
    /\ messages_df' = [i \in 1..N |-> rename_row(messages_df[i])]
    /\ results' = [i \in 1..N |-> <<>>]
    /\ futures' = [i \in 1..N |-> [st |-> "pending", raised |-> FALSE, val |-> FALSE]]
    /\ pc' = "eval"
    /\ UNCHANGED <<source, dir, templates, fileIdx, order, coverage_summary,
                   uncovered_messages, written, matchVars>>

\* a worker takes the oldest queued unit
StartUnit(i) ==
    /\ pc = "eval"
    /\ futures[i].st = "pending"
    /\ \A j \in 1..(i - 1) : futures[j].st # "pending"
    /\ Cardinality(Running) < max_workers
    /\ futures' = [futures EXCEPT ![i].st = "running"]
    /\ UNCHANGED <<pc, source, dir, messages_df, templates, fileIdx, results, order,
                   coverage_summary, uncovered_messages, written, matchVars>>

\* the unit writes the shared registry (a lookup that inserts the missing key)
FinishUnitWriting(i) ==
    /\ pc = "eval"
    /\ futures[i].st = "running"
    /\ futures' = [futures EXCEPT ![i] =
                       [st |-> "done",
                        raised |-> check_row(messages_df[i], templates).raised,
                        val |-> check_row(messages_df[i], templates).val]]
    /\ templates' = IF messages_df[i].casa_sender_name \in DOMAIN templates
                    THEN templates
                    ELSE dict_set(templates, messages_df[i].casa_sender_name, <<>>)
    /\ UNCHANGED <<pc, source, dir, messages_df, fileIdx, results, order,
                   coverage_summary, uncovered_messages, written, matchVars>>

\* check_row(rows[i]) runs to its return or to its exception
FinishUnit(i) ==
    /\ pc = "eval"
    /\ futures[i].st = "running"
    /\ futures' = [futures EXCEPT ![i] =
                       [st |-> "done",
                        raised |-> check_row(messages_df[i], templates).raised,
                        val |-> check_row(messages_df[i], templates).val]]
    /\ UNCHANGED <<pc, source, dir, messages_df, templates, fileIdx, results, order,
                   coverage_summary, uncovered_messages, written, matchVars>>

\* the result list filled in completion order
store_appending(res, idx, fut) ==
    LET k == 1 + Cardinality({j \in 1..Len(res) : res[j] # <<>>})
    IN  [res EXCEPT ![k] = <<IF fut.raised THEN FALSE ELSE fut.val>>]

\* the handler of line 108 storing True for a unit that raised
store_raise_true(res, idx, fut) ==
    [res EXCEPT ![idx] = <<IF fut.raised THEN TRUE ELSE fut.val>>]

\* lines 105-110: the slot of the future's own index
store_result(res, idx, fut) ==
    [res EXCEPT ![idx] = <<IF fut.raised THEN FALSE ELSE fut.val>>]

\* the collection loop yielding a finished future again
CollectRepeating(i) ==
    /\ pc = "eval"
    /\ futures[i].st = "done"
    /\ Len(order) < N
    /\ results' = store_result(results, i, futures[i])
    /\ order' = Append(order, i)
    /\ UNCHANGED <<pc, source, dir, messages_df, templates, fileIdx, futures,
                   coverage_summary, uncovered_messages, written, matchVars>>

\* lines 104-110: as_completed yields a finished future not yet yielded
Collect(i) ==
    /\ pc = "eval"
    /\ futures[i].st = "done"
    /\ \A k \in 1..Len(order) : order[k] # i
    /\ results' = store_result(results, i, futures[i])
    /\ order' = Append(order, i)
    /\ UNCHANGED <<pc, source, dir, messages_df, templates, fileIdx, futures,
                   coverage_summary, uncovered_messages, written, matchVars>>

\* lines 112-122, after the pool has been joined
Summarize ==
    /\ pc = "eval"
    /\ Len(order) = N
    /\ messages_df' = with_covered(messages_df, results)
    /\ coverage_summary' = summary(messages_df')
    /\ written' = written \cup {"summary"}
    /\ pc' = "export"
    /\ UNCHANGED <<source, dir, templates, fileIdx, futures, results, order,
                   uncovered_messages, matchVars>>

\* lines 124-126
Export ==
    /\ pc = "export"
    /\ uncovered_messages' = uncovered(messages_df)
    /\ written' = written \cup {"uncovered"}
    /\ pc' = "done"
    /\ UNCHANGED <<source, dir, messages_df, templates, fileIdx, futures, results,
                   order, coverage_summary, matchVars>>

Next ==
    \/ ReadMessages
    \/ ListDir
    \/ LoadFile
    \/ Submit
    \/ \E i \in 1..Len(futures) : StartUnit(i)
    \/ \E i \in 1..Len(futures) : FinishUnit(i)
    \/ \E i \in 1..Len(futures) : Collect(i)
    \/ Summarize
    \/ Export

(***************************************************************************)
(* Inputs                                                                  *)
(***************************************************************************)
SeqsUpTo(S, n) == UNION {[1..k -> S] : k \in 0..n}

\* sender spellings, message texts, template texts, file names
S_bk == <<"b", "k">>
S_BK_padded == <<" ", "B", "K">>
S_b_k == <<"b", "_", "k">>
S_b2k == <<"b", " ", " ", "k">>
M_ab == <<"A", " ", " ", "b">>
M_c == <<"c">>
M_kb == <<"k", "\t", "b">>
T_c == <<"C">>
T_ap == <<"a", " ", "<", "p", ">">>
T_b == <<"b", "<">>
F_bk == S_bk \o Ext
F_b_k == S_b_k \o Ext
F_bsk == <<"b", " ", "k">> \o Ext
F_b2k == S_b2k \o Ext
F_txt == <<"b", "k", ".", "t", "x", "t">>

Row(col, sender, message) ==
    [k \in {"casa_sender_name", col} |-> IF k = col THEN message ELSE sender]

MessageCols == {"message", "Message", "body"}

Unreadable == [readable |-> FALSE, recs |-> <<>>]

Sheet(name, cells) ==
    [name |-> name, readable |-> TRUE, columns |-> <<Cell(TemplateCol)>>,
     cells |-> cells]

Headers(name, columns) ==
    [name |-> name, readable |-> TRUE, columns |-> columns, cells |-> <<>>]

Broken(name) ==
    [name |-> name, readable |-> FALSE, columns |-> <<>>, cells |-> <<>>]

Listing(files) == [listable |-> TRUE, files |-> files]

\* batches for the evaluation runs: every batch of at most MaxRows records
EvalSenders == {S_bk, S_BK_padded, NaN}
EvalMessages == {M_ab, M_c, M_kb}

EvalSources ==
    {Unreadable} \cup
    {[readable |-> TRUE, recs |-> recs] :
        recs \in UNION {SeqsUpTo({Row(col, s, m) : s \in EvalSenders,
                                                   m \in EvalMessages}, MaxRows) :
                        col \in MessageCols}}

EvalDirs ==
    {Listing(<<Sheet(F_bk, <<Cell(T_c), Cell(T_ap)>>)>>),
     Listing(<<Headers(F_txt, <<>>), Sheet(F_bk, <<BadCell(T_b)>>)>>),
     Listing(<<Sheet(F_b_k, <<Cell(T_ap)>>)>>)}

\* directories for the loading runs: one sheet of at most MaxTemplates cells,
\* alone or beside one other file, in either order
Cells == {NanCell, Cell(T_c), BadCell(T_b), Cell(T_ap)}

RichFiles == {Sheet(F_bk, cells) : cells \in SeqsUpTo(Cells, MaxTemplates)}

OtherFiles ==
    {Broken(F_bk), Broken(F_b_k),
     Sheet(F_b_k, <<Cell(T_ap)>>),
     Sheet(F_bsk, <<BadCell(T_b), Cell(T_c)>>),
     Sheet(F_b2k, <<Cell(T_c)>>),
     Headers(F_b_k, <<Cell(<<" ">> \o T_c), BadCell(T_b)>>),
     [name |-> F_b_k, readable |-> TRUE,
      columns |-> <<Cell(M_c), Cell(<<" ">> \o TemplateCol)>>,
      cells |-> <<Cell(T_ap)>>],
     Headers(F_txt, <<Cell(T_c)>>)}

DistinctNames(files) ==
    \A i, j \in 1..Len(files) : i # j => files[i].name # files[j].name

LoadDirs ==
    {[listable |-> FALSE, files |-> <<>>], Listing(<<>>)} \cup
    {Listing(<<f>>) : f \in RichFiles \cup OtherFiles} \cup
    {Listing(fs) : fs \in {x \in (({<<f, g>> : f \in RichFiles, g \in OtherFiles})
                                  \cup {<<g, f>> : f \in RichFiles, g \in OtherFiles}) :
                              DistinctNames(x)}}

LoadSources ==
    {Unreadable,
     [readable |-> TRUE, recs |-> <<Row("message", S_b_k, M_c)>>],
     [readable |-> TRUE,
      recs |-> <<Row("message", S_bk, M_ab), Row("message", S_b2k, M_c)>>]}

PipeInit ==
    /\ pc = "start"
    /\ messages_df = <<>>
    /\ templates = <<>>
    /\ fileIdx = 0
    /\ futures = <<>>
    /\ results = <<>>
    /\ order = <<>>
    /\ coverage_summary = <<>>
    /\ uncovered_messages = <<>>
    /\ written = {}

MatchIdle == t_in = <<>> /\ m_in = <<>> /\ m_out = <<>>

Init == PipeInit /\ MatchIdle /\ source \in EvalSources /\ dir \in EvalDirs

Spec == Init /\ [][Next]_vars

InitLoad == PipeInit /\ MatchIdle /\ source \in LoadSources /\ dir \in LoadDirs

SpecLoad == InitLoad /\ [][Next]_vars

(***************************************************************************)
(* One template against one message: the compile loop and is_covered on    *)
(* every template text and message text within the bounds                  *)
(***************************************************************************)
TmplChars == {"a", "A", " ", "<", ">"}
MsgChars == {"a", "A", " ", "\t", "<"}

InitMatch ==
    /\ PipeInit
    /\ source = Unreadable
    /\ dir = Listing(<<>>)
    /\ t_in \in SeqsUpTo(TmplChars, MaxTmplLen)
    /\ m_in \in SeqsUpTo(MsgChars, MaxMsgLen)
    /\ m_out = <<>>

Match ==
    /\ m_out = <<>>
    /\ m_out' = <<is_covered(m_in, compile_templates(<<Cell(t_in)>>))>>
    /\ UNCHANGED <<t_in, m_in, pipeVars>>

NextMatch == Match

SpecMatch == InitMatch /\ [][NextMatch]_vars

(***************************************************************************)
(* Properties                                                              *)
(***************************************************************************)
\* the pool has been joined: every future has been yielded and stored
Joined == pc \in {"eval", "export", "done"} /\ Len(order) = N

\* what evaluating record i gives: the value check_row returns, False when
\* it raises
OwnOutcome(i) ==
    LET r == check_row(messages_df[i], templates)
    IN  IF r.raised THEN FALSE ELSE r.val

\* C1: once the batch has been joined the result list has one result per
\* input record, and the result at index i is the outcome of evaluating
\* record i, whatever the order in which the units completed.
C1_OrderPreserved ==
    Joined =>
        /\ Len(results) = Len(source.recs)
        /\ \A i \in 1..Len(results) : results[i] = <<OwnOutcome(i)>>

C1_Witness ==
    /\ pc = "done"
    /\ order = <<2, 1>>
    /\ results[1] # results[2]

\* the same record read from a workbook whose message column is named message
WithMessage(row) ==
    IF HasField(row, "body")
    THEN [k \in (DOMAIN row \ {"body"}) \cup {"message"} |->
              IF k = "message" THEN row.body ELSE row[k]]
    ELSE row

\* C2: a unit that raises (the record has no message field) leaves False in
\* its slot, the run is not aborted and goes on to its end, and every other
\* record has the result it has in the batch where no unit raises.
C2_FailureIsolated ==
    (\E i \in 1..Len(futures) : futures[i].raised) =>
        /\ pc \in {"eval", "export", "done"}
        /\ pc # "done" => ENABLED Next
        /\ Joined =>
              \A i \in 1..N :
                  IF check_row(messages_df[i], templates).raised
                  THEN results[i] = <<FALSE>>
                  ELSE results[i] =
                           <<check_row(WithMessage(messages_df[i]), templates).val>>

C2_Witness ==
    /\ pc = "done"
    /\ \E i, j \in 1..N :
           /\ futures[i].raised
           /\ ~futures[j].raised
           /\ results[i] = <<FALSE>>
           /\ written = {"summary", "uncovered"}

\* the canonical sender key of input record i
SenderKey(i) == canonical_sender(source.recs[i].casa_sender_name)

NoPlaceholder(t) ==
    ~\E i, j \in 1..Len(t) : i < j /\ t[i] = "<" /\ t[j] = ">"

RECURSIVE IsSubseq(_, _)
IsSubseq(a, b) ==
    IF a = <<>> THEN TRUE
    ELSE IF b = <<>> THEN FALSE
    ELSE IF Head(a) = Head(b) THEN IsSubseq(Tail(a), Tail(b))
    ELSE IsSubseq(a, Tail(b))

IsNotSpace(c) == c # " "

\* a is b with some (possibly none) of its spaces removed
IsSpaceDeletion(a, b) ==
    IsSubseq(a, b) /\ SelectSeq(a, IsNotSpace) = SelectSeq(b, IsNotSpace)

\* C4 as stated: a template with no placeholder covers exactly the messages
\* equal to it modulo letter case and collapsing of whitespace runs.
C4_ExactModuloCaseAndWhitespace ==
    (m_out # <<>> /\ NoPlaceholder(t_in)) =>
        (m_out = <<TRUE>> <=> clean_text(m_in) = clean_text(t_in))

\* C4 amended: a template with no placeholder covers exactly the messages
\* whose normalized text is the normalized template with some, possibly none,
\* of its spaces removed; so it covers every message equal to it modulo case
\* and whitespace runs, and none with other leading or trailing content.
C4_ExactModuloSpaceDeletion ==
    (m_out # <<>> /\ NoPlaceholder(t_in)) =>
        /\ m_out = <<TRUE>> <=> IsSpaceDeletion(clean_text(m_in), clean_text(t_in))
        /\ clean_text(m_in) = clean_text(t_in) => m_out = <<TRUE>>

C4_Witness ==
    /\ m_out = <<TRUE>>
    /\ NoPlaceholder(t_in)
    /\ t_in = <<"A", " ", "a">>
    /\ m_in = <<"a", "A">>

\* the transform of the specification: uppercase, trim, collapse whitespace
SpecCanonical(s) == collapse_ws(strip(upper(s)))

Stem(name) == SubSeq(name, 1, Len(name) - Len(Ext))

\* C5: the sender of a record and the sender name of a template source are
\* keyed by one and the same transform (uppercase, trim, collapse internal
\* whitespace), so two identities equal under it have the same registry key.
C5_SameKeyForEqualIdentities ==
    pc \notin {"start", "aborted"} =>
        \A i \in 1..Len(source.recs) : \A n \in 1..Len(dir.files) :
            (/\ endswith(dir.files[n].name, Ext)
             /\ SpecCanonical(source.recs[i].casa_sender_name)
                    = SpecCanonical(Stem(dir.files[n].name)))
            => /\ messages_df[i].casa_sender_name = bank_name(dir.files[n].name)
               /\ bank_name(dir.files[n].name)
                      = SpecCanonical(Stem(dir.files[n].name))

\* the sender spellings of the input data
RawSenders == {source.recs[i].casa_sender_name : i \in 1..Len(source.recs)}

\* C6: the summary is keyed by the raw sender spellings of the input data,
\* so records whose senders differ only in case or surrounding whitespace
\* are in different groups.
C6_GroupedByRawSender ==
    pc \in {"export", "done"} =>
        /\ DOMAIN coverage_summary = RawSenders \ {NaN}
        /\ \A g \in DOMAIN coverage_summary :
               coverage_summary[g].total =
                   Cardinality({i \in 1..Len(source.recs) :
                                    source.recs[i].casa_sender_name = g})

\* the directory entries that are template sources
XlsxFiles == {n \in 1..Len(dir.files) : endswith(dir.files[n].name, Ext)}

LoadDone == pc \in {"eval", "export", "done"}

UnitStarted == \E i \in 1..Len(futures) : futures[i].st # "pending"

\* C7 as stated: an unreadable message source or template source aborts the
\* run before any evaluation, and neither output is produced.
C7_AnyLoadFailureIsFatal ==
    (\/ ~source.readable
     \/ \E n \in XlsxFiles : ~dir.files[n].readable)
    => /\ ~UnitStarted
       /\ written = {}
       /\ pc # "done"

\* C7 amended: an unreadable message source (or template directory) is fatal:
\* the run aborts before any evaluation and produces neither output.  An
\* unreadable template source file is not fatal: it is passed over, it
\* gives its sender no registry entry, and the run is never aborted for it.
C7_LoadFailurePolicy ==
    /\ (~source.readable \/ ~dir.listable) =>
           /\ pc \in {"start", "list", "aborted"}
           /\ futures = <<>> /\ written = {} /\ templates = <<>>
    /\ pc = "aborted" =>
           /\ ~source.readable \/ ~dir.listable \/ str_accessor_raises(source.recs)
           /\ futures = <<>> /\ written = {}
    /\ LoadDone =>
           \A n \in XlsxFiles :
               (/\ ~dir.files[n].readable
                /\ \A k \in XlsxFiles :
                       bank_name(dir.files[k].name) = bank_name(dir.files[n].name)
                       => ~dir.files[k].readable)
               => bank_name(dir.files[n].name) \notin DOMAIN templates
    /\ pc = "done" => written = {"summary", "uncovered"}

C7_Witness ==
    /\ pc = "done"
    /\ written = {"summary", "uncovered"}
    /\ \E n \in XlsxFiles : ~dir.files[n].readable
    /\ templates # <<>>

\* C8: the registry is completely built before the first unit starts, and
\* from the end of the load phase on no step changes it.
C8_RegistryFrozen ==
    [][/\ LoadDone => templates' = templates
       /\ (~UnitStarted /\ UnitStarted') =>
              (pc = "eval" /\ fileIdx = Len(dir.files) /\ templates' = templates)
      ]_vars

C8_Witness ==
    /\ pc = "done"
    /\ Len(order) = 2
    /\ templates # <<>>
    /\ \E i \in 1..N : messages_df[i].casa_sender_name \notin DOMAIN templates

\* the cells of a sheet that are templates re.compile accepts
IsGoodCell(c) == ~c.nan /\ ~c.re_error

GoodPatterns(f) ==
    LET good == SelectSeq(raw_templates(f), IsGoodCell)
    IN  [k \in 1..Len(good) |-> normalize(good[k].text, TRUE)]

ReadableSources == {n \in XlsxFiles : dir.files[n].readable}

\* the last readable source of bank b in the directory listing
LastSource(b) ==
    CHOOSE n \in ReadableSources :
        /\ bank_name(dir.files[n].name) = b
        /\ \A k \in ReadableSources :
               bank_name(dir.files[k].name) = b => k <= n

\* C9: a template whose pattern construction fails is dropped, and only it:
\* the registry holds, for every sender with a readable source, the patterns
\* of all its other templates in source order, and the build is not aborted.
C9_CompileFailureIsolated ==
    /\ LoadDone =>
           /\ DOMAIN templates =
                  {bank_name(dir.files[n].name) : n \in ReadableSources}
           /\ \A b \in DOMAIN templates :
                  templates[b] = GoodPatterns(dir.files[LastSource(b)])
    /\ (source.readable /\ dir.listable /\ ~str_accessor_raises(source.recs))
           => pc # "aborted"

C9_Witness ==
    /\ pc = "done"
    /\ \E n \in ReadableSources :
           /\ dir.files[n].cells = <<Cell(T_c), BadCell(T_b), Cell(T_ap)>>
           /\ templates[bank_name(dir.files[n].name)]
                  = <<normalize(T_c, TRUE), normalize(T_ap, TRUE)>>
    /\ \E n \in ReadableSources :
           /\ bank_name(dir.files[n].name) # bank_name(F_bk)
           /\ templates[bank_name(dir.files[n].name)] # <<>>

RECURSIVE SumOfTotals(_)
SumOfTotals(keys) ==
    IF keys = {} THEN 0
    ELSE LET g == CHOOSE x \in keys : TRUE
         IN  coverage_summary[g].total + SumOfTotals(keys \ {g})

\* the input records whose canonical sender is g
RecordsOf(g) == {i \in 1..Len(source.recs) : SenderKey(i) = g}

SummaryEntriesExact ==
    \A g \in DOMAIN coverage_summary :
        LET e == coverage_summary[g]
        IN  /\ e.total = Cardinality(RecordsOf(g))
            /\ e.covered = Cardinality({i \in RecordsOf(g) : results[i] = <<TRUE>>})
            /\ e.covered <= e.total
            /\ e.total > 0
            /\ e.coverage_pct.num = 100 * e.covered
            /\ e.coverage_pct.den = e.total
            /\ 0 <= e.coverage_pct.num
            /\ e.coverage_pct.num <= 100 * e.coverage_pct.den

RECURSIVE FalseIndices(_)
FalseIndices(n) ==
    IF n = 0 THEN <<>>
    ELSE IF results[n] = <<FALSE>> THEN Append(FalseIndices(n - 1), n)
    ELSE FalseIndices(n - 1)

\* C11: the uncovered set is the subsequence of the batch made of the records
\* whose result is false, in their original order: each of them once, none
\* with result true, and the records defaulted to false after a unit failure
\* among them.
C11_UncoveredIsFalseSubsequence ==
    pc = "done" =>
        LET idx == FalseIndices(Len(source.recs))
        IN  /\ Len(uncovered_messages) = Len(idx)
            /\ \A k \in 1..Len(idx) :
                   /\ uncovered_messages[k] = messages_df[idx[k]]
                   /\ uncovered_messages[k].casa_sender_name = SenderKey(idx[k])
                   /\ ~uncovered_messages[k].covered
            /\ \A i \in 1..Len(source.recs) :
                   futures[i].raised => \E k \in 1..Len(idx) : idx[k] = i

C11_Witness ==
    /\ pc = "done"
    /\ results = <<<<TRUE>>, <<FALSE>>>>
    /\ Len(uncovered_messages) = 1
    /\ uncovered_messages[1].message = source.recs[2].message

Yielded(i) == \E k \in 1..Len(order) : order[k] = i

\* C12: every result slot is written exactly once, with the outcome of its
\* own unit: a step that changes slot i finds it unset, stores the outcome
\* of unit i and is the yield of future i; every yield writes the slot of a
\* future not yielded before; after the join no slot is unset.  This holds
\* for every completion order and for units that raised.
C12_SlotWrittenOnce ==
    [][/\ \A i \in 1..Len(results) :
              results'[i] # results[i] =>
                  /\ results[i] = <<>>
                  /\ futures[i].st = "done"
                  /\ results'[i] = <<OwnOutcome(i)>>
                  /\ order' = Append(order, i)
       /\ order' # order =>
              \E i \in 1..Len(results) :
                  /\ order' = Append(order, i)
                  /\ ~Yielded(i)
                  /\ results[i] = <<>>
                  /\ results'[i] # <<>>
                  /\ \A j \in 1..Len(results) : j # i => results'[j] = results[j]
       /\ Joined' => \A i \in 1..Len(results') : results'[i] # <<>>
      ]_vars

C12_Witness ==
    /\ Joined
    /\ order = <<2, 1>>
    /\ futures[1].raised
    /\ ~futures[2].raised
    /\ results = <<<<FALSE>>, <<FALSE>>>>

====
